---- MODULE Spec2Model ----
(***************************************************************************)
(* The RCA failure-aggregation engine of Talkops: the in-memory failure    *)
(* store (src/lib/failureStore.ts), the failure logger and the report      *)
(* builder (rcaEngine).                                                    *)
(*                                                                         *)
(* Time is counted in whole hours: a Date is a natural number, the local   *)
(* hour of day of t is t % 24, and a look-back of h hours subtracts h.     *)
(* A field that is undefined in JavaScript is the string UNDEF (a missing  *)
(* timestamp is NoTime); "" is the empty string, which is falsy like       *)
(* undefined.  Key values (agents, gateways) are the names the repository  *)
(* itself logs.                                                            *)
(***************************************************************************)
EXTENDS Integers, Sequences, FiniteSets, TLC

VARIABLES
    failureEvents,  \* the module-level array of the store
    now,            \* the clock
    recorded,       \* history: the events recorded since the last clear
    call,           \* history: the last store call and its outcome
    pc,             \* where the report generation stands
    request,        \* the options of the report generation
    report,         \* the report being built, then returned
    aiCalls,        \* Summarizer calls made by this report generation
    snapshot,       \* history: the store and the clock when it began
    returned        \* history: the report returned last, where it is recorded

reportVars == <<pc, request, report, aiCalls, snapshot, returned>>

vars == <<failureEvents, now, recorded, call, pc, request, report, aiCalls,
          snapshot, returned>>

\* ------------------------------------------------------------------ bounds

\* Capacity of the store (10000 in the source, scaled down).
MAX_EVENTS == 6

\* Most record calls between two clears.
MaxRecorded == 8

\* Most events held when the aggregations are explored.
MaxAggEvents == 4

\* Most events held, and the latest hour, when reports are generated.
MaxReportEvents == 3

MaxNow == 2

\* ------------------------------------------------------------- JavaScript

UNDEF == "undefined"

NoTime == 0 - 1

\* JavaScript truthiness of a string-or-undefined value.
Truthy(x) == x # UNDEF /\ x # ""

\* x || d
OrElse(x, d) == IF Truthy(x) THEN x ELSE d

\* Math.random().toString(36).substr(2, 9): the outcomes drawn here.
RandVals == {"a", "b"}

\* ------------------------------------------------------------------ store

RequiredFields == {"failure_type", "agent_name", "timestamp", "request_id"}

\* The value a field takes when the caller leaves it out.
Missing(f) == IF f = "timestamp" THEN NoTime ELSE UNDEF

HasRequired(event) == \A f \in RequiredFields : event[f] # Missing(f)

\* const fullEvent = { ...event, id }
FullEvent(event, id) ==
    [f \in (DOMAIN event) \cup {"id"} |-> IF f = "id" THEN id ELSE event[f]]

\* A faulty variant: the id carries no random suffix.
NewIdOfMillisecond(t, r) == <<"fail", t, "">>

\* `fail_${Date.now()}_${random}`
NewId(t, r) == <<"fail", t, r>>

\* A faulty variant: trims one event too early.
PushedTrimsEarly(store, fullEvent) ==
    LET appended == Append(store, fullEvent)
    IN  IF Len(appended) >= MAX_EVENTS THEN Tail(appended) ELSE appended

\* A faulty variant: unshift and pop, the new event in front.
PushedInFront(store, fullEvent) ==
    LET extended == <<fullEvent>> \o store
    IN  IF Len(extended) > MAX_EVENTS
        THEN SubSeq(extended, 1, MAX_EVENTS) ELSE extended

\* A faulty variant: push without the shift.
PushedUnbounded(store, fullEvent) == Append(store, fullEvent)

\* A faulty variant: a full store keeps its events and drops the new one.
PushedKeepingOldest(store, fullEvent) ==
    IF Len(store) >= MAX_EVENTS THEN store ELSE Append(store, fullEvent)

\* push, then shift when the length exceeds MAX_EVENTS
Pushed(store, fullEvent) ==
    LET appended == Append(store, fullEvent)
    IN  IF Len(appended) > MAX_EVENTS THEN Tail(appended) ELSE appended

\* What the last call was given and how it ended.
NoCall == [op |-> "none", arg |-> UNDEF, outcome |-> "none"]

\* addFailureEvent(event): no check of the input, never an error.
addFailureEvent(event, r) ==
    /\ Len(recorded) < MaxRecorded
    /\ LET fullEvent == FullEvent(event, NewId(now, r))
       IN  /\ failureEvents' = Pushed(failureEvents, fullEvent)
           /\ recorded' = Append(recorded, fullEvent)
           /\ call' = [op |-> "addFailureEvent", arg |-> event, outcome |-> "ok"]
    /\ UNCHANGED <<now, reportVars>>

\* The event logFailure builds from its options: timestamp: new Date().
LoggedEvent(options, t) ==
    [failure_type   |-> options.failure_type,
     agent_name     |-> options.agent_name,
     gateway        |-> options.gateway,
     timestamp      |-> t,
     request_id     |-> options.request_id,
     error_message  |-> options.error_message]

\* options.failure_type.toUpperCase() after the event is stored: a TypeError
\* when failure_type is undefined.
LogOutcome(options) ==
    IF options.failure_type = UNDEF THEN "TypeError" ELSE "ok"

\* logFailure(options)
logFailure(options, r) ==
    /\ Len(recorded) < MaxRecorded
    /\ LET event == LoggedEvent(options, now)
           fullEvent == FullEvent(event, NewId(now, r))
       IN  /\ failureEvents' = Pushed(failureEvents, fullEvent)
           /\ recorded' = Append(recorded, fullEvent)
           /\ call' = [op |-> "logFailure", arg |-> event,
                       outcome |-> LogOutcome(options)]
    /\ UNCHANGED <<now, reportVars>>

\* failureEvents.length = 0
clearFailureEvents ==
    /\ failureEvents' = <<>>
    /\ recorded' = <<>>
    /\ call' = [op |-> "clearFailureEvents", arg |-> UNDEF, outcome |-> "ok"]
    /\ UNCHANGED <<now, reportVars>>

\* ------------------------------------------------------------- retrieval

\* e.timestamp >= since on Dates; an undefined timestamp compares false.
TimeGe(t, bound) == t # NoTime /\ t >= bound

TimeLe(t, bound) == t # NoTime /\ t <= bound

\* No filter at all.
NoOptions ==
    [since |-> NoTime, until |-> NoTime, failure_type |-> UNDEF,
     agent_name |-> UNDEF, gateway |-> UNDEF, minOccurrences |-> 0]

\* A faulty variant: the lower bound on the timestamp is exclusive.
FilterEventsExclusive(store, options) ==
    LET e1 == IF options.since # NoTime
              THEN SelectSeq(store, LAMBDA e : e.timestamp > options.since)
              ELSE store
        e2 == IF options.until # NoTime
              THEN SelectSeq(e1, LAMBDA e : TimeLe(e.timestamp, options.until))
              ELSE e1
    IN  SelectSeq(e2, LAMBDA e :
            /\ Truthy(options.failure_type) => e.failure_type = options.failure_type
            /\ Truthy(options.agent_name) => e.agent_name = options.agent_name
            /\ Truthy(options.gateway) => e.gateway = options.gateway)

\* getFailureEvents(options): a copy of the store, narrowed by each option
\* that is truthy (a Date is always truthy).
FilterEvents(store, options) ==
    LET e0 == store
        e1 == IF options.since # NoTime
              THEN SelectSeq(e0, LAMBDA e : TimeGe(e.timestamp, options.since))
              ELSE e0
        e2 == IF options.until # NoTime
              THEN SelectSeq(e1, LAMBDA e : TimeLe(e.timestamp, options.until))
              ELSE e1
        e3 == IF Truthy(options.failure_type)
              THEN SelectSeq(e2, LAMBDA e : e.failure_type = options.failure_type)
              ELSE e2
        e4 == IF Truthy(options.agent_name)
              THEN SelectSeq(e3, LAMBDA e : e.agent_name = options.agent_name)
              ELSE e3
        e5 == IF Truthy(options.gateway)
              THEN SelectSeq(e4, LAMBDA e : e.gateway = options.gateway)
              ELSE e4
    IN  e5

getFailureEvents(options) == FilterEvents(failureEvents, options)

\* getFailureCount(options)
getFailureCount(options) == Len(getFailureEvents(options))

\* ----------------------------------------------------------- aggregation

RECURSIVE SumSeq(_)
SumSeq(seq) == IF seq = <<>> THEN 0 ELSE seq[1] + SumSeq(Tail(seq))

Min(a, b) == IF a <= b THEN a ELSE b

Counts(groups) == [i \in DOMAIN groups |-> groups[i].count]

Percentages(groups) == [i \in DOMAIN groups |-> groups[i].percentage]

MinOf(S) == CHOOSE x \in S : \A y \in S : x <= y

MaxOf(S) == CHOOSE x \in S : \A y \in S : x >= y

\* Math.round((count / total) * 100): the nearest integer, halves upwards.
RoundPct(count, total) == (200 * count + total) \div (2 * total)

\* Keys that are canonical array indices, with their numeric value.
IndexKeys == [k \in {"2", "10"} |-> IF k = "2" THEN 2 ELSE 10]

\* The distinct elements of a sequence, in order of first occurrence.
RECURSIVE Distinct(_)
Distinct(seq) ==
    IF seq = <<>> THEN <<>>
    ELSE LET front == Distinct(SubSeq(seq, 1, Len(seq) - 1))
             last == seq[Len(seq)]
         IN  IF \E i \in DOMAIN front : front[i] = last
             THEN front ELSE Append(front, last)

\* Ascending order of a finite set of integers.
RECURSIVE Ascending(_)
Ascending(S) ==
    IF S = {} THEN <<>> ELSE <<MinOf(S)>> \o Ascending(S \ {MinOf(S)})

\* A faulty variant: one entry per event instead of one per key.
ObjectKeysRepeated(keys) == keys

\* Object.entries order of the keys inserted in the order `keys`: index
\* keys first, ascending, then the other keys in insertion order.
ObjectKeys(keys) ==
    LET d == Distinct(keys)
        isIndex(k) == k \in DOMAIN IndexKeys
        values == {IndexKeys[d[i]] : i \in {j \in DOMAIN d : isIndex(d[j])}}
        ordered == Ascending(values)
        indexKeys == [i \in DOMAIN ordered |->
                        CHOOSE k \in DOMAIN IndexKeys : IndexKeys[k] = ordered[i]]
    IN  indexKeys \o SelectSeq(d, LAMBDA k : ~isIndex(k))

\* Array.prototype.sort((a, b) => b.count - a.count): stable, descending.
InsertByCount(sorted, x) ==
    LET k == Cardinality({i \in DOMAIN sorted : sorted[i].count >= x.count})
    IN  SubSeq(sorted, 1, k) \o <<x>> \o SubSeq(sorted, k + 1, Len(sorted))

RECURSIVE SortByCount(_)
SortByCount(seq) ==
    IF seq = <<>> THEN <<>>
    ELSE InsertByCount(SortByCount(SubSeq(seq, 1, Len(seq) - 1)), seq[Len(seq)])

\* One AggregatedFailure: the group of the events whose key is `key`
\* (eventKeys[i] is the key of events[i]).
GroupOf(events, eventKeys, key, total) ==
    LET members == {i \in DOMAIN events : eventKeys[i] = key}
        times == {events[i].timestamp : i \in members}
    IN  [key |-> key,
         count |-> Cardinality(members),
         percentage |-> RoundPct(Cardinality(members), total),
         first_occurrence |-> MinOf(times),
         last_occurrence |-> MaxOf(times)]

\* The grouping, mapping and sorting that aggregateBy and
\* getGatewayFailureRanking share.
GroupsOf(events, eventKeys, total) ==
    LET keys == ObjectKeys(eventKeys)
    IN  SortByCount([i \in DOMAIN keys |->
                        GroupOf(events, eventKeys, keys[i], total)])

\* A faulty variant: percentages relative to the whole store.
AggregateEventsOfStore(store, field, options) ==
    LET events == FilterEvents(store, options)
    IN  IF Len(events) = 0 THEN <<>>
        ELSE GroupsOf(events,
                      [i \in DOMAIN events |-> OrElse(events[i][field], "unknown")],
                      Len(store))

\* aggregateBy over the events retrieved from `store`
AggregateEvents(store, field, options) ==
    LET events == FilterEvents(store, options)
        total == Len(events)
    IN  IF total = 0 THEN <<>>
        ELSE GroupsOf(events,
                      [i \in DOMAIN events |-> OrElse(events[i][field], "unknown")],
                      total)

\* aggregateBy(field, options)
aggregateBy(field, options) == AggregateEvents(failureEvents, field, options)

\* A faulty variant: percentages relative to all retrieved events, gateway or not.
RankGatewaysOfAll(store, options) ==
    LET all == FilterEvents(store, [options EXCEPT !.gateway = UNDEF])
        events == SelectSeq(all, LAMBDA e : Truthy(e.gateway))
    IN  IF Len(events) = 0 THEN <<>>
        ELSE GroupsOf(events, [i \in DOMAIN events |-> events[i].gateway], Len(all))

\* getGatewayFailureRanking over the events retrieved from `store`
RankGateways(store, options) ==
    LET events == SelectSeq(FilterEvents(store, [options EXCEPT !.gateway = UNDEF]),
                            LAMBDA e : Truthy(e.gateway))
        total == Len(events)
    IN  IF total = 0 THEN <<>>
        ELSE GroupsOf(events, [i \in DOMAIN events |-> events[i].gateway], total)

\* getGatewayFailureRanking(options)
getGatewayFailureRanking(options) == RankGateways(failureEvents, options)

\* A string as its segments between ':' characters.
ColonSplit ==
    [s \in {"Error: timeout", "express:delayed", "fedex:express"} |->
        CASE s = "Error: timeout" -> <<"Error", " timeout">>
          [] s = "express:delayed" -> <<"express", "delayed">>
          [] s = "fedex:express" -> <<"fedex", "express">>]

Segments(s) == IF s \in DOMAIN ColonSplit THEN ColonSplit[s] ELSE <<s>>

\* `${agent_name}:${gateway || 'none'}:${error_message || 'unknown'}`
PatternKey(e) ==
    Segments(e.agent_name) \o Segments(OrElse(e.gateway, "none"))
        \o Segments(OrElse(e.error_message, "unknown"))

\* A faulty variant: the threshold given is ignored.
MinCountFixed(options) == 2

\* options?.minOccurrences || 2
MinCount(options) ==
    IF options.minOccurrences = 0 THEN 2 ELSE options.minOccurrences

\* getRepeatedPatterns over the events retrieved from `store`
PatternsOf(store, options) ==
    LET events == FilterEvents(store, options)
        minCount == MinCount(options)
        keys == Distinct([i \in DOMAIN events |-> PatternKey(events[i])])
        entries ==
            [k \in DOMAIN keys |->
                LET group == SelectSeq(events, LAMBDA e : PatternKey(e) = keys[k])
                IN  [pattern |-> keys[k], count |-> Len(group),
                     agent |-> group[1].agent_name, gateway |-> group[1].gateway]]
    IN  SortByCount(SelectSeq(entries, LAMBDA p : p.count >= minCount))

\* getRepeatedPatterns(options)
getRepeatedPatterns(options) == PatternsOf(failureEvents, options)

\* timestamp.getHours(): the local hour of day.
HourOfDay(t) == t % 24

\* A faulty variant: the hours without events are kept.
HoursOfAllBuckets(store, options) ==
    LET events == FilterEvents(store, options)
        total == Len(events)
        buckets == [k \in 1..24 |->
                       [hour |-> k - 1,
                        count |-> Cardinality({i \in DOMAIN events :
                                     HourOfDay(events[i].timestamp) = k - 1}),
                        percentage |-> 0]]
    IN  IF total = 0 THEN <<>> ELSE SortByCount(buckets)

\* getFailuresByHour over the events retrieved from `store`: the 24 hour
\* counters in ascending hour order, the empty ones dropped, sorted.
HoursOf(store, options) ==
    LET events == FilterEvents(store, options)
        total == Len(events)
        hourCounts ==
            [h \in 0..23 |->
                Cardinality({i \in DOMAIN events :
                                HourOfDay(events[i].timestamp) = h})]
        buckets == [k \in 1..24 |->
                       [hour |-> k - 1, count |-> hourCounts[k - 1],
                        percentage |-> IF total > 0
                                       THEN RoundPct(hourCounts[k - 1], total)
                                       ELSE 0]]
    IN  IF total = 0 THEN <<>>
        ELSE SortByCount(SelectSeq(buckets, LAMBDA b : b.count > 0))

\* getFailuresByHour(options)
getFailuresByHour(options) == HoursOf(failureEvents, options)

Max(a, b) == IF a >= b THEN a ELSE b

\* A faulty variant: the last n elements, slice(-n).
SliceToEnd(seq, n) == SubSeq(seq, Max(Len(seq) - n, 0) + 1, Len(seq))

\* Array.prototype.slice(0, n)
SliceTo(seq, n) ==
    IF n >= 0 THEN SubSeq(seq, 1, Min(n, Len(seq)))
    ELSE SubSeq(seq, 1, Max(Len(seq) + n, 0))

\* getPeakFailureHours over the events retrieved from `store`
PeakHoursOf(store, topN, options) == SliceTo(HoursOf(store, options), topN)

\* getPeakFailureHours(topN, options)
getPeakFailureHours(topN, options) == PeakHoursOf(failureEvents, topN, options)

\* A faulty variant: the first and the last event held are taken for the
\* oldest and the newest.
StoreStatsByPosition(store) ==
    IF Len(store) = 0
    THEN [total_events |-> 0, oldest_event |-> <<>>, newest_event |-> <<>>]
    ELSE [total_events |-> Len(store),
          oldest_event |-> <<store[1].timestamp>>,
          newest_event |-> <<store[Len(store)].timestamp>>]

\* getStoreStats over `store`; an absent timestamp is <<>>.
StoreStats(store) ==
    IF Len(store) = 0
    THEN [total_events |-> 0, oldest_event |-> <<>>, newest_event |-> <<>>]
    ELSE LET times == {store[i].timestamp : i \in DOMAIN store}
         IN  [total_events |-> Len(store),
              oldest_event |-> <<MinOf(times)>>,
              newest_event |-> <<MaxOf(times)>>]

\* getStoreStats()
getStoreStats == StoreStats(failureEvents)

\* ---------------------------------------------------------- report builder

\* A string is the sequence of its pieces; numbers are printed in decimal.
NoFailuresText == <<"No failures recorded in the specified time window.">>

\* parts.join(' ')
RECURSIVE JoinParts(_)
JoinParts(parts) ==
    IF parts = <<>> THEN <<>>
    ELSE IF Len(parts) = 1 THEN parts[1]
    ELSE parts[1] \o <<" ">> \o JoinParts(Tail(parts))

\* String.prototype.trim on a sequence of one-character pieces.
RECURSIVE TrimLeft(_)
TrimLeft(text) ==
    IF text # <<>> /\ text[1] = " " THEN TrimLeft(Tail(text)) ELSE text

RECURSIVE TrimRight(_)
TrimRight(text) ==
    IF text # <<>> /\ text[Len(text)] = " "
    THEN TrimRight(SubSeq(text, 1, Len(text) - 1)) ELSE text

Trim(text) == TrimRight(TrimLeft(text))

\* formatHour(hour)
formatHour(hour) ==
    LET h == hour % 24
    IN  IF h = 0 THEN <<"12 AM">>
        ELSE IF h = 12 THEN <<"12 PM">>
        ELSE IF h < 12 THEN <<ToString(h), " AM">>
        ELSE <<ToString(h - 12), " PM">>

\* The hoursBack option: a number, or not given.
Hours(n) == [kind |-> "number", value |-> n]

NoHours == [kind |-> "undefined", value |-> 0]

NoRequest == [hoursBack |-> NoHours, includeAISummary |-> UNDEF]

NoSnapshot == [store |-> <<>>, now |-> 0]

DefaultHoursBack == 24

\* options?.hoursBack || 24
HoursBack(options) ==
    IF options.hoursBack.kind = "number" /\ options.hoursBack.value # 0
    THEN options.hoursBack.value
    ELSE DefaultHoursBack

\* options?.includeAISummary !== false
IncludeAI(options) == options.includeAISummary # "false"

PeakHoursTopN == 3

\* An optional value: <<>> when absent, <<v>> when present.
TopOf(groups) ==
    IF Len(groups) > 0
    THEN <<[name |-> groups[1].key, percentage |-> groups[1].percentage,
            count |-> groups[1].count]>>
    ELSE <<>>

\* A faulty variant: the percentage of the first peak hour alone.
PeakWindowOfFirst(peakHours) ==
    IF Len(peakHours) > 0
    THEN <<[hours |-> formatHour(peakHours[1].hour),
            percentage |-> peakHours[1].percentage]>>
    ELSE <<>>

\* insights.peak_failure_window
PeakWindow(peakHours) ==
    IF Len(peakHours) > 0
    THEN LET hours == {peakHours[i].hour : i \in DOMAIN peakHours}
             minHour == MinOf(hours)
             maxHour == MaxOf(hours)
         IN  <<[hours |-> IF Len(peakHours) = 1 THEN formatHour(minHour)
                          ELSE formatHour(minHour) \o <<"-">>
                                   \o formatHour(maxHour + 1),
                percentage |-> SumSeq(Percentages(peakHours))]>>
    ELSE <<>>

\* insights.top_pattern
TopPattern(patterns) ==
    IF Len(patterns) > 0
    THEN <<[description |-> <<patterns[1].agent, " agent with ",
                              OrElse(patterns[1].gateway, "unknown"), " gateway">>,
            count |-> patterns[1].count]>>
    ELSE <<>>

\* The insights and the report object that analyzeFailures builds from the
\* statistics; ai_summary is not set yet.
ReportOf(t, hoursBack, totalFailures, byType, byAgent, byGateway, peakHours, hourlyDistribution, repeatedPatterns) ==
    [generated_at |-> t,
     time_window |-> [from |-> t - hoursBack, to |-> t, hours |-> hoursBack],
     summary |-> [total_failures |-> totalFailures, by_type |-> byType,
                  by_agent |-> byAgent, by_gateway |-> byGateway],
     time_analysis |-> [peak_hours |-> peakHours,
                        hourly_distribution |-> hourlyDistribution],
     patterns |-> [repeated_failures |-> repeatedPatterns],
     insights |-> [most_failing_gateway |-> TopOf(byGateway),
                   most_failing_agent |-> TopOf(byAgent),
                   peak_failure_window |-> PeakWindow(peakHours),
                   top_pattern |-> TopPattern(repeatedPatterns)],
     ai_summary |-> <<>>]

\* A faulty variant: the statistics look back from the time of the call only.
StatsOptionsFromNow(t, options) == [NoOptions EXCEPT !.since = t]

\* const statsOptions = { since }
StatsOptions(t, options) == [NoOptions EXCEPT !.since = t - HoursBack(options)]

\* A faulty variant: the total is the size of the store, whatever the window.
AnalysisCountingStore(store, t, options) ==
    ReportOf(t, HoursBack(options),
             Len(store),
             AggregateEvents(store, "failure_type", StatsOptions(t, options)),
             AggregateEvents(store, "agent_name", StatsOptions(t, options)),
             RankGateways(store, StatsOptions(t, options)),
             PeakHoursOf(store, PeakHoursTopN, StatsOptions(t, options)),
             HoursOf(store, StatsOptions(t, options)),
             PatternsOf(store, [StatsOptions(t, options) EXCEPT !.minOccurrences = 2]))

\* The statistics of analyzeFailures over the store `store` at time `t`, and
\* the report built from them.
Analysis(store, t, options) ==
    ReportOf(t, HoursBack(options),
             Len(FilterEvents(store, StatsOptions(t, options))),
             AggregateEvents(store, "failure_type", StatsOptions(t, options)),
             AggregateEvents(store, "agent_name", StatsOptions(t, options)),
             RankGateways(store, StatsOptions(t, options)),
             PeakHoursOf(store, PeakHoursTopN, StatsOptions(t, options)),
             HoursOf(store, StatsOptions(t, options)),
             PatternsOf(store, [StatsOptions(t, options) EXCEPT !.minOccurrences = 2]))

\* generateFallbackSummary(report)
generateFallbackSummary(r) ==
    LET gateway == r.insights.most_failing_gateway
        peak == r.insights.peak_failure_window
        counted == << <<ToString(r.summary.total_failures),
                        " failures recorded in the last ",
                        ToString(r.time_window.hours), " hours.">> >>
        byGateway == IF gateway # <<>>
                     THEN << <<ToString(gateway[1].percentage),
                               "% of failures occurred with ",
                               gateway[1].name, ".">> >>
                     ELSE <<>>
        peakPart == IF peak # <<>>
                    THEN << <<"Peak failures occurred between ">>
                              \o peak[1].hours \o <<".">> >>
                    ELSE <<>>
    IN  JoinParts(counted \o byGateway \o peakPart)

\* What the Summarizer answers: response.text is undefined (<<>>) or a text
\* (<<text>>): empty, blank, or a sentence with blanks around it.
SummarizerResponses ==
    {<<>>, << <<>> >>, << <<" ", " ">> >>, << <<"S", "1">> >>,
     << <<" ", "S", " ", "2", " ">> >>}

\* return response.text?.trim() || generateFallbackSummary(report)
SummaryFrom(response, r) ==
    IF response # <<>> /\ Trim(response[1]) # <<>>
    THEN Trim(response[1])
    ELSE generateFallbackSummary(r)

\* A Summarizer answer that is taken for the number of failures.
ResolvedOverriding(r, response) ==
    [pc |-> "done",
     report |-> [r EXCEPT !.ai_summary = <<SummaryFrom(response, r)>>,
                          !.summary.total_failures = Len(SummaryFrom(response, r))]]

\* The state after the awaited generateAISummary resolved with `response`.
Resolved(r, response) ==
    [pc |-> "done", report |-> [r EXCEPT !.ai_summary = <<SummaryFrom(response, r)>>]]

\* analyzeFailures that lets the Summarizer's error through to its caller.
RejectedRethrown(r) == [pc |-> "failed", report |-> r]

\* The state after it rejected: the catch block.
Rejected(r) ==
    [pc |-> "done", report |-> [r EXCEPT !.ai_summary = <<generateFallbackSummary(r)>>]]

\* analyzeFailures that asks the Summarizer whenever the summary is requested.
ConcludedAlwaysSummarizing(r, options) ==
    IF IncludeAI(options)
    THEN [pc |-> "summarizing", report |-> r, aiCalls |-> 1]
    ELSE [pc |-> "done", report |-> [r EXCEPT !.ai_summary = <<NoFailuresText>>],
          aiCalls |-> 0]

\* analyzeFailures that asks the Summarizer whenever there are failures,
\* requested or not.
ConcludedIgnoringOption(r, options) ==
    IF r.summary.total_failures > 0
    THEN [pc |-> "summarizing", report |-> r, aiCalls |-> 1]
    ELSE [pc |-> "done", report |-> [r EXCEPT !.ai_summary = <<NoFailuresText>>],
          aiCalls |-> 0]

\* What analyzeFailures does with the report `r` it built: await the AI
\* summary, or return with the fixed message or with no summary.
Concluded(r, options) ==
    IF IncludeAI(options) /\ r.summary.total_failures > 0
    THEN [pc |-> "summarizing", report |-> r, aiCalls |-> 1]
    ELSE IF r.summary.total_failures = 0
    THEN [pc |-> "done", report |-> [r EXCEPT !.ai_summary = <<NoFailuresText>>],
          aiCalls |-> 0]
    ELSE [pc |-> "done", report |-> r, aiCalls |-> 0]

\* The synchronous part of analyzeFailures, up to the await or the return.
Started(store, t, options) == Concluded(Analysis(store, t, options), options)

\* analyzeFailures(options) is called.
analyzeFailures(options) ==
    /\ pc = "idle"
    /\ \E s \in {Started(failureEvents, now, options)} :
           /\ pc' = s.pc
           /\ report' = s.report
           /\ aiCalls' = s.aiCalls
    /\ request' = options
    /\ snapshot' = [store |-> failureEvents, now |-> now]
    /\ UNCHANGED <<failureEvents, now, recorded, call, returned>>

\* ai.models.generateContent resolves.
summarizerResolves(response) ==
    /\ pc = "summarizing"
    /\ \E s \in {Resolved(report, response)} :
           pc' = s.pc /\ report' = s.report
    /\ UNCHANGED <<failureEvents, now, recorded, call, request, aiCalls, snapshot,
                   returned>>

\* ai.models.generateContent rejects.
summarizerRejects ==
    /\ pc = "summarizing"
    /\ \E s \in {Rejected(report)} :
           pc' = s.pc /\ report' = s.report
    /\ UNCHANGED <<failureEvents, now, recorded, call, request, aiCalls, snapshot,
                   returned>>

\* What is remembered of a returned report: its statistics, the start of
\* its window, the look-back asked for and the store it was computed over.
Returned(r, store, options) ==
    [summary |-> r.summary, time_analysis |-> r.time_analysis,
     patterns |-> r.patterns, from |-> r.time_window.from,
     hoursBack |-> options.hoursBack, store |-> store]

\* The report is returned to the awaiting caller.
returnReport ==
    /\ pc = "done"
    /\ pc' = "idle"
    /\ request' = NoRequest
    /\ report' = <<>>
    /\ aiCalls' = 0
    /\ snapshot' = NoSnapshot
    /\ UNCHANGED <<failureEvents, now, recorded, call>>

\* The clock advances by an hour.
Tick ==
    /\ now < MaxNow
    /\ now' = now + 1
    /\ UNCHANGED <<failureEvents, recorded, call, reportVars>>

\* ------------------------------------------------------------ quick stats

NaN == [kind |-> "NaN", value |-> 0]

\* byType[0] ? { type, count, percentage } : undefined
TopTypeOf(groups) ==
    IF Len(groups) > 0
    THEN <<[type |-> groups[1].key, count |-> groups[1].count,
            percentage |-> groups[1].percentage]>>
    ELSE <<>>

\* byGateway[0] ? { name, count, percentage } : undefined
TopNameOf(groups) ==
    IF Len(groups) > 0
    THEN <<[name |-> groups[1].key, count |-> groups[1].count,
            percentage |-> groups[1].percentage]>>
    ELSE <<>>

\* The events that can pass the since filter of getQuickStats: with
\* hoursBack NaN since is an Invalid Date, which is truthy and compares
\* false with every timestamp.
QuickStore(store, hoursBack) ==
    IF hoursBack.kind = "number" THEN store ELSE <<>>

\* { since } with since = new Date(Date.now() - hoursBack * 60 * 60 * 1000)
QuickOptions(t, hoursBack) ==
    [NoOptions EXCEPT !.since = t - hoursBack.value]

\* A faulty variant: the quick stats look at the whole store.
QuickStatsOfWholeStore(store, t, hoursBack) ==
    [total_failures |-> Len(store),
     top_failure_type |-> TopTypeOf(AggregateEvents(store, "failure_type", NoOptions)),
     top_gateway |-> TopNameOf(RankGateways(store, NoOptions)),
     top_agent |-> TopNameOf(AggregateEvents(store, "agent_name", NoOptions))]

\* getQuickStats(hoursBack) over `store` at time `t`
QuickStatsOf(store, t, hoursBack) ==
    [total_failures |->
         Len(FilterEvents(QuickStore(store, hoursBack), QuickOptions(t, hoursBack))),
     top_failure_type |->
         TopTypeOf(AggregateEvents(QuickStore(store, hoursBack), "failure_type",
                                   QuickOptions(t, hoursBack))),
     top_gateway |->
         TopNameOf(RankGateways(QuickStore(store, hoursBack),
                                QuickOptions(t, hoursBack))),
     top_agent |->
         TopNameOf(AggregateEvents(QuickStore(store, hoursBack), "agent_name",
                                   QuickOptions(t, hoursBack)))]

\* getQuickStats(hoursBack)
getQuickStats(hoursBack) == QuickStatsOf(failureEvents, now, hoursBack)

\* formatReportForLogging(report): the lines that carry the report's
\* numbers, between the fixed banner lines.
formatReportForLogging(r) ==
    << <<"Window: ", ToString(r.time_window.hours), " hours">>,
       <<"   Total Failures: ", ToString(r.summary.total_failures)>> >>
      \o [i \in DOMAIN r.summary.by_type |->
             <<"     * ", r.summary.by_type[i].key, ": ",
               ToString(r.summary.by_type[i].count), " (",
               ToString(r.summary.by_type[i].percentage), "%)">>]
      \o (IF r.ai_summary # <<>> /\ r.ai_summary[1] # <<>>
          THEN << <<"AI SUMMARY">>, r.ai_summary[1] >> ELSE <<>>)

\* ---------------------------------------------------------------- handlers

\* The hours query parameter as sent: absent, a number, zero, not a number,
\* a number followed by letters.
HoursParams == {UNDEF, "1", "0", "abc", "1h"}

\* parseInt(hoursParam): the leading digits, NaN when there are none.
ParseInt(s) ==
    CASE s = "1" -> Hours(1)
      [] s = "1h" -> Hours(1)
      [] s = "0" -> Hours(0)
      [] OTHER -> NaN

\* const hours = hoursParam ? parseInt(hoursParam) : 24
HoursOfParam(hoursParam) ==
    IF Truthy(hoursParam) THEN ParseInt(hoursParam) ELSE Hours(DefaultHoursBack)

\* The functions of the store that read it, as they are called.
Reads ==
    {[op |-> "getFailureEvents", arg |-> [NoOptions EXCEPT !.failure_type = "payment"]],
     [op |-> "getFailureCount", arg |-> NoOptions],
     [op |-> "aggregateBy", arg |-> "agent_name"],
     [op |-> "getFailuresByHour", arg |-> NoOptions],
     [op |-> "getPeakFailureHours", arg |-> 1],
     [op |-> "getGatewayFailureRanking", arg |-> NoOptions],
     [op |-> "getRepeatedPatterns", arg |-> NoOptions],
     [op |-> "getStoreStats", arg |-> UNDEF]}

\* What a reading function returns over `store`.
ReadResult(store, op, arg) ==
    CASE op = "getFailureEvents" -> FilterEvents(store, arg)
      [] op = "getFailureCount" -> Len(FilterEvents(store, arg))
      [] op = "aggregateBy" -> AggregateEvents(store, arg, NoOptions)
      [] op = "getFailuresByHour" -> HoursOf(store, arg)
      [] op = "getPeakFailureHours" -> PeakHoursOf(store, arg, NoOptions)
      [] op = "getGatewayFailureRanking" -> RankGateways(store, arg)
      [] op = "getRepeatedPatterns" -> PatternsOf(store, arg)
      [] op = "getStoreStats" -> StoreStats(store)

\* A faulty variant: reading takes the oldest event off the store.
StoreAfterReadShifted(store) == IF store = <<>> THEN store ELSE Tail(store)

\* The store after a reading function ran: getFailureEvents works on a copy
\* ([...failureEvents]), getStoreStats on a mapped array, and the functions
\* built on them sort and slice arrays of their own.
StoreAfterRead(store) == store

\* One of the reading functions is called.
read(op, arg) ==
    /\ failureEvents' = StoreAfterRead(failureEvents)
    /\ call' = [op |-> op, arg |-> arg,
                outcome |-> ReadResult(failureEvents, op, arg)]
    /\ UNCHANGED <<now, recorded, reportVars>>

\* GET /api/rca/stats: getQuickStats(hours) and getStoreStats(), no await.
GetRCAStats(hoursParam) ==
    /\ failureEvents' = StoreAfterRead(failureEvents)
    /\ call' = [op |-> "GetRCAStats", arg |-> [hours |-> hoursParam],
                outcome |->
                    [status |-> 200,
                     time_window_hours |-> HoursOfParam(hoursParam),
                     stats |-> QuickStatsOf(failureEvents, now,
                                            HoursOfParam(hoursParam)),
                     store |-> StoreStats(failureEvents)]]
    /\ UNCHANGED <<now, recorded, reportVars>>

\* The analyzeFailures options of GET /api/rca/report, with the query
\* parameters the handler keeps for its response.
ApiRequest(hoursParam, format) ==
    [hoursBack |-> HoursOfParam(hoursParam), includeAISummary |-> "true",
     handler |-> "GetRCAReport", hoursParam |-> hoursParam, format |-> format]

\* The analyzeFailures options of the hourly pass.
CronRequest ==
    [hoursBack |-> Hours(DefaultHoursBack), includeAISummary |-> "true",
     handler |-> "RCAAnalysisCron", hoursParam |-> UNDEF, format |-> UNDEF]

\* GET /api/rca/report up to its await of analyzeFailures.
GetRCAReport(hoursParam, format) == analyzeFailures(ApiRequest(hoursParam, format))

\* GET /api/rca/report after the await: the response, as text or as JSON.
GetRCAReportResponds ==
    /\ pc = "done"
    /\ request.handler = "GetRCAReport"
    /\ call' = [op |-> "GetRCAReport",
                arg |-> [hours |-> request.hoursParam, format |-> request.format],
                outcome |-> [status |-> 200,
                             body |-> IF OrElse(request.format, "json") = "text"
                                      THEN formatReportForLogging(report)
                                      ELSE report]]
    /\ pc' = "idle"
    /\ request' = NoRequest
    /\ report' = <<>>
    /\ aiCalls' = 0
    /\ snapshot' = NoSnapshot
    /\ UNCHANGED <<failureEvents, now, recorded, returned>>

\* The hourly pass up to its await of analyzeFailures.
RCAAnalysisCron == analyzeFailures(CronRequest)

\* The hourly pass after the await: it renders the report, stores it, takes
\* the quick stats and emits rca.report.generated.
RCAAnalysisCronEmits ==
    /\ pc = "done"
    /\ request.handler = "RCAAnalysisCron"
    /\ \E quickStats \in {QuickStatsOf(failureEvents, now, Hours(DefaultHoursBack))} :
          call' = [op |-> "RCAAnalysisCron", arg |-> formatReportForLogging(report),
                   outcome |-> [generated_at |-> report.generated_at,
                                total_failures |-> report.summary.total_failures,
                                top_failure_type |-> quickStats.top_failure_type,
                                top_gateway |-> quickStats.top_gateway,
                                top_agent |-> quickStats.top_agent,
                                ai_summary |-> report.ai_summary]]
    /\ pc' = "idle"
    /\ request' = NoRequest
    /\ report' = <<>>
    /\ aiCalls' = 0
    /\ snapshot' = NoSnapshot
    /\ UNCHANGED <<failureEvents, now, recorded, returned>>

\* ------------------------------------------------- store specification

\* logFailure options of the agents: a payment failure, and one whose
\* caller left failure_type out.
PaymentOptions ==
    [failure_type |-> "payment", agent_name |-> "hulk", gateway |-> "stripe",
     request_id |-> "req-1", error_message |-> "Card declined"]

UntypedOptions == [PaymentOptions EXCEPT !.failure_type = UNDEF]

StoreOptions == {PaymentOptions, UntypedOptions}

\* Direct addFailureEvent inputs: the events built from the same two.
StoreInputs ==
    {LoggedEvent(o, 0) : o \in StoreOptions}

InitStore ==
    /\ failureEvents = <<>>
    /\ now = 0
    /\ recorded = <<>>
    /\ call = NoCall
    /\ pc = "idle"
    /\ request = NoRequest
    /\ report = <<>>
    /\ aiCalls = 0
    /\ snapshot = NoSnapshot
    /\ returned = <<>>

NextStore ==
    \/ \E event \in StoreInputs, r \in RandVals : addFailureEvent(event, r)
    \/ \E options \in StoreOptions, r \in RandVals : logFailure(options, r)
    \/ clearFailureEvents

SpecStore == InitStore /\ [][NextStore]_vars

\* ------------------------------------------- aggregation specification

\* A FailureEvent input.
Input(type, agent, gateway, t, requestId, message) ==
    [failure_type |-> type, agent_name |-> agent, gateway |-> gateway,
     timestamp |-> t, request_id |-> requestId, error_message |-> message]

\* The failures the demo and the README log (rca-demo runDemo), stamped at
\* hours 18 and 19 of one day and of the next; the last two carry no
\* gateway (undefined, and the empty string).
PctInputs ==
    {Input("payment", "hulk", "stripe", 18, "req-pay-0", "Card declined"),
     Input("payment", "hulk", "paypal", 19, "req-pay-12", "Insufficient funds"),
     Input("fraud", "fraud_detector", "refund_validation", 18, "req-fraud-0",
           "Excessive refunds"),
     Input("shipping", "havoc", "fedex", 42, "req-ship-0",
           "Delivery delayed - weather"),
     Input("shipping", "havoc", "ups", 43, "req-ship-5", UNDEF),
     Input("shipping", "aisha", UNDEF, 19, "req-ship-9", UNDEF)}

AggInputs ==
    PctInputs \cup {Input("payment", "hulk", "", 42, "req-pay-13", "")}

Fields == {"failure_type", "agent_name", "gateway"}

\* The time windows asked for: none, from hour 19, up to hour 19 or 42.
WindowOptions ==
    {[NoOptions EXCEPT !.since = s, !.until = u] :
        s \in {NoTime, 19}, u \in {NoTime, 19, 42}}

\* Every filter asked for.
QueryOptions ==
    {[w EXCEPT !.failure_type = t, !.agent_name = a, !.gateway = g] :
        w \in WindowOptions, t \in {UNDEF, "payment", "shipping"},
        a \in {UNDEF, "havoc"}, g \in {UNDEF, "", "stripe"}}

\* The thresholds asked for (0 stands for 0 and for none given).
PatternOptions ==
    {[NoOptions EXCEPT !.since = s, !.minOccurrences = k] :
        s \in {NoTime, 19}, k \in {0 - 1, 0, 1, 2, 3}}

InitAgg == InitStore

NextAgg ==
    \E event \in AggInputs :
        /\ Len(failureEvents) < MaxAggEvents
        /\ addFailureEvent(event, "a")

SpecAgg == InitAgg /\ [][NextAgg]_vars

InitPct == InitStore

NextPct ==
    \E event \in PctInputs :
        /\ Len(failureEvents) < MAX_EVENTS
        /\ addFailureEvent(event, "a")

SpecPct == InitPct /\ [][NextPct]_vars

\* ---------------------------------------------------- id specification

MaxIdEvents == 3

\* Events whose caller-supplied timestamp is not the time of insertion.
IdInputs ==
    {Input("payment", "hulk", "stripe", 18, "req-pay-0", "Card declined"),
     Input("shipping", "havoc", "fedex", 42, "req-ship-0", UNDEF)}

InitIds == InitStore

\* Events are recorded directly and through logFailure while the clock
\* advances; Math.random may draw any suffix, the same one again included.
NextIds ==
    \/ \E event \in IdInputs, r \in RandVals :
          Len(failureEvents) < MaxIdEvents /\ addFailureEvent(event, r)
    \/ \E r \in RandVals :
          Len(failureEvents) < MaxIdEvents /\ logFailure(PaymentOptions, r)
    \/ Tick

SpecIds == InitIds /\ [][NextIds]_vars

\* ------------------------------------------------ report specification

\* The failures the agents log while reports are generated.
ReportOptions ==
    {PaymentOptions,
     [failure_type |-> "shipping", agent_name |-> "havoc", gateway |-> UNDEF,
      request_id |-> "req-2", error_message |-> UNDEF]}

\* The report requests: the look-back given or not, the summary asked for
\* or not.
Requests ==
    [hoursBack : {NoHours, Hours(1)},
     includeAISummary : {UNDEF, "true", "false"}]

InitReport == InitStore

\* The caller awaiting a finished report resumes before any other handler
\* runs, so nothing is interleaved between "done" and returnReport.
NextReport ==
    \/ \E options \in ReportOptions :
          /\ pc # "done"
          /\ Len(failureEvents) < MaxReportEvents
          /\ logFailure(options, "a")
    \/ pc # "done" /\ Tick
    \/ \E options \in Requests : analyzeFailures(options)
    \/ \E response \in SummarizerResponses : summarizerResolves(response)
    \/ summarizerRejects
    \/ returnReport /\ UNCHANGED returned

SpecReport == InitReport /\ [][NextReport]_vars

\* The run-to-completion scheduling resumes the caller of a finished
\* analyzeFailures; nothing makes the Summarizer answer.
SpecReportFair == SpecReport /\ WF_vars(returnReport /\ UNCHANGED returned)

\* ----------------------------------------------- handler specification

MaxHandlerEvents == 2

\* The query parameters of the report requests.
Formats == {UNDEF, "text"}

\* The hours parameter of the report requests: absent, a number, not a number.
ReportHoursParams == {UNDEF, "1", "abc"}

\* The Summarizer answers without a text or with one.
HandlerResponses == {<<>>, << <<"S", "1">> >>}

InitHandlers == InitStore

\* The agents log failures, the store is cleared, the store is read, and
\* the stats request, the report request and the hourly pass run, in any
\* interleaving of their synchronous parts (the plain reads are taken
\* between report generations).
NextHandlers ==
    \/ \E options \in ReportOptions :
          Len(failureEvents) < MaxHandlerEvents /\ logFailure(options, "a")
    \/ failureEvents # <<>> /\ clearFailureEvents
    \/ \E r \in Reads : pc = "idle" /\ read(r.op, r.arg)
    \/ \E hoursParam \in HoursParams : GetRCAStats(hoursParam)
    \/ \E hoursParam \in ReportHoursParams, format \in Formats :
          GetRCAReport(hoursParam, format)
    \/ GetRCAReportResponds
    \/ RCAAnalysisCron
    \/ RCAAnalysisCronEmits
    \/ \E response \in HandlerResponses : summarizerResolves(response)
    \/ summarizerRejects

SpecHandlers == InitHandlers /\ [][NextHandlers]_vars

\* ------------------------------------------------ reader specification

\* A report asked for without the AI summary: analyzeFailures has no await.
PlainRequest == [hoursBack |-> NoHours, includeAISummary |-> "false"]

InitReaders == InitStore

\* Failures are logged until events are evicted, the store is cleared, and
\* between these calls the store is read, for itself, for the quick stats
\* and for a report.
NextReaders ==
    \/ \E r \in RandVals : pc = "idle" /\ logFailure(PaymentOptions, r)
    \/ pc = "idle" /\ failureEvents # <<>> /\ clearFailureEvents
    \/ \E r \in Reads : pc = "idle" /\ read(r.op, r.arg)
    \/ pc = "idle" /\ GetRCAStats(UNDEF)
    \/ analyzeFailures(PlainRequest)
    \/ returnReport /\ UNCHANGED returned

SpecReaders == InitReaders /\ [][NextReaders]_vars

\* --------------------------------------------- repeated report generation

MaxRepeatEvents == 2

InitRepeat == InitStore

\* Reports generated one after the other; each returned report is recorded
\* in `returned`.
NextRepeat ==
    \/ \E options \in ReportOptions :
          /\ pc # "done"
          /\ Len(failureEvents) < MaxRepeatEvents
          /\ logFailure(options, "a")
    \/ pc # "done" /\ Tick
    \/ \E options \in Requests : analyzeFailures(options)
    \/ \E response \in SummarizerResponses : summarizerResolves(response)
    \/ summarizerRejects
    \/ returnReport /\ returned' = <<Returned(report, snapshot.store, request)>>

SpecRepeat == InitRepeat /\ [][NextRepeat]_vars

\* ------------------------------------------- quick stats specification

MaxQuickEvents == 2

\* The hours parameter of the stats requests: absent or a number.
QuickHoursParams == {UNDEF, "1"}

InitQuick == InitStore

\* Reports are generated while failures are logged and the clock advances;
\* the stats request is answered at any time but between the end of a report
\* generation and the resumption of its caller.
NextQuick ==
    \/ \E options \in ReportOptions :
          /\ pc # "done"
          /\ Len(failureEvents) < MaxQuickEvents
          /\ logFailure(options, "a")
    \/ pc # "done" /\ Tick
    \/ \E options \in Requests : analyzeFailures(options)
    \/ \E hoursParam \in QuickHoursParams : pc # "done" /\ GetRCAStats(hoursParam)
    \/ \E response \in HandlerResponses : summarizerResolves(response)
    \/ summarizerRejects
    \/ returnReport /\ UNCHANGED returned

SpecQuick == InitQuick /\ [][NextQuick]_vars

\* ------------------------------------------------ window specification

\* The look-back values given to analyzeFailures: none, 0, 1 and 2 hours;
\* no summary is asked for.
WindowRequests ==
    [hoursBack : {NoHours, Hours(0), Hours(1), Hours(2)},
     includeAISummary : {"false"}]

InitWindow == InitStore

NextWindow ==
    \/ \E options \in ReportOptions :
          /\ pc = "idle"
          /\ Len(failureEvents) < MaxReportEvents
          /\ logFailure(options, "a")
    \/ pc = "idle" /\ Tick
    \/ \E options \in WindowRequests : analyzeFailures(options)
    \/ returnReport /\ UNCHANGED returned

SpecWindow == InitWindow /\ [][NextWindow]_vars

\* --------------------------------------------------- key specification

\* Failures of agents and carriers whose names are numbers ("2", "10")
\* beside named ones.
KeyInputs ==
    {Input("payment", "hulk", "stripe", 18, "req-pay-0", "Card declined"),
     Input("payment", "10", "stripe", 18, "req-pay-1", "Card declined"),
     Input("shipping", "2", "10", 19, "req-ship-0", UNDEF),
     Input("shipping", "havoc", "fedex", 19, "req-ship-1", UNDEF)}

InitKeys == InitStore

NextKeys ==
    \E event \in KeyInputs :
        /\ Len(failureEvents) < MaxAggEvents
        /\ addFailureEvent(event, "a")

SpecKeys == InitKeys /\ [][NextKeys]_vars

\* -------------------------------------------------- peak specification

MaxPeakEvents == 6

\* Failures in four different hours of day.
PeakInputs ==
    {Input("shipping", "havoc", "fedex", h, "req-ship-0", UNDEF) : h \in 18..21}

\* The topN values asked for.
TopNs == 0..5

InitPeak == InitStore

NextPeak ==
    \E event \in PeakInputs :
        /\ Len(failureEvents) < MaxPeakEvents
        /\ addFailureEvent(event, "a")

SpecPeak == InitPeak /\ [][NextPeak]_vars

\* ----------------------------------------------- pattern specification

\* Shipping failures of one agent: the carrier given with or without its
\* service ("fedex:express"), or not given; the message with or without a
\* prefix ("express:delayed").
PatternInputs ==
    {Input("shipping", "havoc", "fedex", 18, "req-ship-0", "express:delayed"),
     Input("shipping", "havoc", "fedex:express", 18, "req-ship-1", "delayed"),
     Input("shipping", "havoc", "fedex", 19, "req-ship-2", "delayed"),
     Input("shipping", "havoc", UNDEF, 19, "req-ship-3", "delayed")}

InitPatterns == InitStore

NextPatterns ==
    \E event \in PatternInputs :
        /\ Len(failureEvents) < MaxAggEvents
        /\ addFailureEvent(event, "a")

SpecPatterns == InitPatterns /\ [][NextPatterns]_vars

\* ---------------------------------------------- capacity specification

\* A report over the last hour, without the AI summary.
LastHourRequest == [hoursBack |-> Hours(1), includeAISummary |-> "false"]

InitCapacity == InitStore

\* Failures are logged past the capacity of the store while the clock
\* advances, the store is cleared, and reports are generated.
NextCapacity ==
    \/ pc = "idle" /\ logFailure(PaymentOptions, "a")
    \/ pc = "idle" /\ Tick
    \/ pc = "idle" /\ failureEvents # <<>> /\ clearFailureEvents
    \/ analyzeFailures(LastHourRequest)
    \/ returnReport /\ UNCHANGED returned

SpecCapacity == InitCapacity /\ [][NextCapacity]_vars

\* ------------------------------------------------------------ store claims

\* The last n elements of a sequence.
LastN(seq, n) == SubSeq(seq, Len(seq) - n + 1, Len(seq))

\* A step that is a call of addFailureEvent or logFailure.
RecordStep ==
    /\ call'.op \in {"addFailureEvent", "logFailure"}
    /\ (call' # call \/ recorded' # recorded \/ failureEvents' # failureEvents)

\* C1: after any sequence of record and clear calls the store holds exactly
\* the last min(n, MAX_EVENTS) events recorded since the most recent clear, in
\* insertion order; a record call removes an event only when the store is
\* already full, and then only the single oldest one.
C1_FifoRetention ==
    /\ [](failureEvents = LastN(recorded, Min(Len(recorded), MAX_EVENTS)))
    /\ [][RecordStep =>
            \E e \in {recorded'[Len(recorded')]} :
                IF Len(failureEvents) = MAX_EVENTS
                THEN failureEvents' = Append(Tail(failureEvents), e)
                ELSE failureEvents' = Append(failureEvents, e)]_vars

\* C1 witness: the store is full, older events have been evicted, and the
\* evicted head differs from the retained one.
C1_Evicted ==
    /\ Len(recorded) = MAX_EVENTS + 2
    /\ Len(failureEvents) = MAX_EVENTS
    /\ recorded[1] # recorded[3]
    /\ failureEvents[1] = recorded[3]

\* C2: a record call whose input lacks a required field ends with an
\* InvalidInput error and leaves the store unchanged.
C2_InvalidInputRejected ==
    [][(RecordStep /\ ~HasRequired(call'.arg)) =>
          (call'.outcome = "InvalidInput" /\ failureEvents' = failureEvents)]_vars

\* ------------------------------------------------------ aggregation claims

Abs(x) == IF x < 0 THEN 0 - x ELSE x

\* p is count / total * 100 rounded to the nearest integer, halves upwards.
IsRoundedPct(p, count, total) ==
    /\ 2 * p * total - total <= 200 * count
    /\ 200 * count < 2 * p * total + total

SortedByCount(groups) ==
    \A i, j \in DOMAIN groups : i < j => groups[i].count >= groups[j].count

\* e satisfies every filter field of o that is given at all.
MatchesGiven(e, o) ==
    /\ o.since # NoTime => TimeGe(e.timestamp, o.since)
    /\ o.until # NoTime => TimeLe(e.timestamp, o.until)
    /\ o.failure_type # UNDEF => e.failure_type = o.failure_type
    /\ o.agent_name # UNDEF => e.agent_name = o.agent_name
    /\ o.gateway # UNDEF => e.gateway = o.gateway

\* e satisfies every filter field of o that is given and not empty.
MatchesNonEmpty(e, o) ==
    /\ o.since # NoTime => TimeGe(e.timestamp, o.since)
    /\ o.until # NoTime => TimeLe(e.timestamp, o.until)
    /\ Truthy(o.failure_type) => e.failure_type = o.failure_type
    /\ Truthy(o.agent_name) => e.agent_name = o.agent_name
    /\ Truthy(o.gateway) => e.gateway = o.gateway

\* C6 (as claimed): query(filter) returns exactly the stored events that
\* satisfy every supplied filter field, in insertion order.
C6_QueryExact ==
    \A o \in QueryOptions :
        getFailureEvents(o) = SelectSeq(failureEvents, LAMBDA e : MatchesGiven(e, o))

\* C6 (amended): query(filter) returns exactly the stored events that satisfy
\* every supplied filter field whose value is not the empty string, in
\* insertion order (an empty-string filter value is ignored); with no match
\* the result is the empty list.
C6_QueryExactNonEmpty ==
    \A o \in QueryOptions :
        getFailureEvents(o) = SelectSeq(failureEvents, LAMBDA e : MatchesNonEmpty(e, o))

\* C6 witness: a filter on type, on a time bound and with an empty gateway
\* value selects some events, one of them with a gateway, and leaves others
\* out; another filter matches nothing.
C6_Filtered ==
    /\ \E o \in QueryOptions :
          /\ o.gateway = "" /\ o.failure_type = "payment" /\ o.until # NoTime
          /\ Len(getFailureEvents(o)) < Len(failureEvents)
          /\ \E i \in DOMAIN getFailureEvents(o) :
                getFailureEvents(o)[i].gateway = "stripe"
    /\ \E o \in QueryOptions :
          /\ o.agent_name = "havoc" /\ getFailureEvents(o) = <<>>

\* C7: for every event set and dimension the group counts of aggregateBy
\* sum to the number of events, every event is counted in exactly one group,
\* and the empty set gives the empty list.
C7_CountsPartition ==
    \A f \in Fields, o \in WindowOptions :
        LET events == getFailureEvents(o)
            groups == aggregateBy(f, o)
            keyOf(e) == IF e[f] \in {UNDEF, ""} THEN "unknown" ELSE e[f]
        IN  /\ SumSeq(Counts(groups)) = Len(events)
            /\ events = <<>> => groups = <<>>
            /\ \A i \in DOMAIN events :
                  Cardinality({g \in DOMAIN groups :
                                  groups[g].key = keyOf(events[i])}) = 1
            /\ \A g \in DOMAIN groups :
                  groups[g].count =
                      Cardinality({i \in DOMAIN events :
                                      keyOf(events[i]) = groups[g].key})

\* C7 witness: a window that leaves an event out, with two groups or more,
\* one of them of several events and one of them "unknown".
C7_Grouped ==
    \E o \in WindowOptions :
        LET groups == aggregateBy("gateway", o)
        IN  /\ o.since # NoTime
            /\ 0 < getFailureCount(o) /\ getFailureCount(o) < Len(failureEvents)
            /\ Len(groups) >= 2
            /\ \E g \in DOMAIN groups : groups[g].count >= 2
            /\ \E g \in DOMAIN groups : groups[g].key = "unknown"

\* Every percentage of `groups` is the rounded share of `total` events,
\* within 0..100.
PercentagesRounded(groups, total) ==
    \A g \in DOMAIN groups :
        /\ groups[g].percentage \in 0..100
        /\ IsRoundedPct(groups[g].percentage, groups[g].count, total)

\* The windows the percentages are tried on: the whole store, and the
\* events from hour 19 on.
SinceOptions == {NoOptions, [NoOptions EXCEPT !.since = 19]}

\* C8 (as claimed): each percentage is round(groupCount / totalEvents * 100)
\* against the size of the event set, and the percentages sum to a value in
\* 99..101.
C8_PercentagesSumTo100 ==
    \A f \in Fields, o \in SinceOptions :
        LET groups == aggregateBy(f, o)
            total == getFailureCount(o)
        IN  total > 0 =>
                /\ PercentagesRounded(groups, total)
                /\ SumSeq(Percentages(groups)) \in 99..101

\* C8 (amended): each percentage is round(groupCount / totalEvents * 100)
\* in 0..100 against the size of the event set; the percentages of g groups
\* sum to a value within g/2 of 100, which is within 99..101 when there are
\* at most 3 groups.
C8_PercentagesSumWithinGroups ==
    \A f \in Fields, o \in SinceOptions :
        LET groups == aggregateBy(f, o)
            total == getFailureCount(o)
            sum == SumSeq(Percentages(groups))
        IN  total > 0 =>
                /\ PercentagesRounded(groups, total)
                /\ 2 * Abs(sum - 100) <= Len(groups)
                /\ Len(groups) <= 3 => sum \in 99..101

\* C8 witness: six groups of one event each, 17 percent each; and a window
\* smaller than the store with groups of different sizes.
C8_SixGroups ==
    /\ Len(aggregateBy("gateway", NoOptions)) = 6
    /\ SumSeq(Percentages(aggregateBy("gateway", NoOptions))) = 102
    /\ \E o \in SinceOptions :
          /\ getFailureCount(o) < Len(failureEvents)
          /\ Len(aggregateBy("gateway", o)) >= 2

\* Scenario B's payment failures (runDemo): 15, the first 12 with stripe,
\* the rest with paypal.
DemoPaymentCount == 15

DemoStripeCount == 12

DemoPayments ==
    [i \in 1..DemoPaymentCount |->
        FullEvent(Input("payment", "hulk",
                        IF i - 1 < DemoStripeCount THEN "stripe" ELSE "paypal",
                        18, "req-pay", IF (i - 1) % 3 = 0 THEN "Card declined"
                                       ELSE "Insufficient funds"),
                  NewId(18, "a"))]

KeyCountPct(groups) ==
    [i \in DOMAIN groups |->
        <<groups[i].key, groups[i].count, groups[i].percentage>>]

\* C9: getGatewayFailureRanking returns no group for events without a
\* gateway; its counts sum to the number of gateway-bearing events and each
\* percentage is round(groupCount / gateway-bearing events * 100); 12 stripe
\* and 3 paypal events among any gateway-less events give 80 and 20.
C9_GatewayRanking ==
    /\ \A o \in WindowOptions :
          LET events == getFailureEvents(o)
              bearing == {i \in DOMAIN events : events[i].gateway \notin {UNDEF, ""}}
              groups == getGatewayFailureRanking(o)
          IN  /\ \A g \in DOMAIN groups :
                    \E i \in bearing : events[i].gateway = groups[g].key
              /\ SumSeq(Counts(groups)) = Cardinality(bearing)
              /\ \A g \in DOMAIN groups :
                    /\ groups[g].count =
                          Cardinality({i \in bearing :
                                          events[i].gateway = groups[g].key})
                    /\ IsRoundedPct(groups[g].percentage, groups[g].count,
                                    Cardinality(bearing))
    /\ LET without == SelectSeq(failureEvents, LAMBDA e : e.gateway \in {UNDEF, ""})
       IN  KeyCountPct(RankGateways(without \o DemoPayments \o without, NoOptions))
              = << <<"stripe", 12, 80>>, <<"paypal", 3, 20>> >>

\* C9 witness: a window holding an event without a gateway and events of two
\* gateways with different counts.
C9_MixedGateways ==
    \E o \in WindowOptions :
        LET events == getFailureEvents(o)
            groups == getGatewayFailureRanking(o)
        IN  /\ \E i \in DOMAIN events : events[i].gateway \in {UNDEF, ""}
            /\ Len(groups) = 2
            /\ groups[1].count > groups[2].count

\* C10: for every event set and threshold k, getRepeatedPatterns returns no
\* group whose count is less than k, and the groups are in descending order
\* of count.
C10_PatternsAtLeastK ==
    \A o \in PatternOptions :
        LET patterns == getRepeatedPatterns(o)
        IN  /\ \A p \in DOMAIN patterns : patterns[p].count >= o.minOccurrences
            /\ SortedByCount(patterns)

\* C10 witness: with threshold 3 one pattern of three events is returned
\* and a pattern of one event is left out; with threshold 1 both are
\* returned, the larger first.
C10_ThresholdApplied ==
    /\ Len(getRepeatedPatterns([NoOptions EXCEPT !.minOccurrences = 3])) = 1
    /\ LET patterns == getRepeatedPatterns([NoOptions EXCEPT !.minOccurrences = 1])
       IN  /\ Len(patterns) = 2
           /\ patterns[1].count = 3 /\ patterns[2].count = 1

\* The thresholds a caller asks for: none is negative.
Thresholds == {o.minOccurrences : o \in PatternOptions} \cap Nat

\* C11: for every event set and thresholds k1 <= k2 (k1 = 0 included),
\* getRepeatedPatterns with minOccurrences k2 returns a list no longer than
\* with minOccurrences k1.
C11_PatternsMonotone ==
    \A o \in PatternOptions : \A k2 \in Thresholds :
        o.minOccurrences \in Thresholds /\ o.minOccurrences <= k2 =>
            Len(getRepeatedPatterns([o EXCEPT !.minOccurrences = k2]))
                <= Len(getRepeatedPatterns(o))

\* C12: for every event set getFailuresByHour returns exactly one bucket
\* for each hour 0..23 that has an event and none for any other hour, no
\* bucket has count 0, each count is the number of events of that hour, the
\* counts sum to the number of events, and the buckets are in descending
\* order of count.
C12_HourBuckets ==
    \A o \in WindowOptions :
        LET events == getFailureEvents(o)
            buckets == getFailuresByHour(o)
            inHour(h) == {i \in DOMAIN events : events[i].timestamp % 24 = h}
        IN  /\ \A h \in 0..23 :
                  Cardinality({b \in DOMAIN buckets : buckets[b].hour = h})
                      = IF inHour(h) = {} THEN 0 ELSE 1
            /\ \A b \in DOMAIN buckets :
                  /\ buckets[b].hour \in 0..23
                  /\ buckets[b].count > 0
                  /\ buckets[b].count = Cardinality(inHour(buckets[b].hour))
            /\ SumSeq(Counts(buckets)) = Len(events)
            /\ SortedByCount(buckets)

\* C12 witness: events of two hours of day, the fuller hour holding events of
\* different days.
C12_TwoHours ==
    LET buckets == getFailuresByHour(NoOptions)
    IN  /\ Len(buckets) = 2
        /\ buckets[1].count > buckets[2].count
        /\ \E i, j \in DOMAIN failureEvents :
              /\ failureEvents[i].timestamp # failureEvents[j].timestamp
              /\ failureEvents[i].timestamp % 24 = buckets[1].hour
              /\ failureEvents[j].timestamp % 24 = buckets[1].hour

\* C20: getStoreStats returns total_events equal to the number of events
\* held; for a non-empty store oldest_event is the least and newest_event the
\* greatest timestamp held, whatever the insertion order; for an empty store
\* it returns total_events 0 and no timestamps.
C20_StoreStats ==
    LET stats == getStoreStats
    IN  /\ stats.total_events = Len(failureEvents)
        /\ failureEvents = <<>> =>
              stats.oldest_event = <<>> /\ stats.newest_event = <<>>
        /\ failureEvents # <<>> =>
              /\ Len(stats.oldest_event) = 1 /\ Len(stats.newest_event) = 1
              /\ \E i \in DOMAIN failureEvents :
                    failureEvents[i].timestamp = stats.oldest_event[1]
              /\ \E i \in DOMAIN failureEvents :
                    failureEvents[i].timestamp = stats.newest_event[1]
              /\ \A i \in DOMAIN failureEvents :
                    /\ stats.oldest_event[1] <= failureEvents[i].timestamp
                    /\ failureEvents[i].timestamp <= stats.newest_event[1]
              /\ stats.oldest_event[1] <= stats.newest_event[1]

\* C20 witness: the newest event was inserted first and the oldest neither
\* first nor last.
C20_OutOfOrder ==
    /\ Len(failureEvents) = 3
    /\ failureEvents[1].timestamp > failureEvents[3].timestamp
    /\ failureEvents[3].timestamp > failureEvents[2].timestamp
    /\ getStoreStats.oldest_event = <<failureEvents[2].timestamp>>
    /\ getStoreStats.newest_event = <<failureEvents[1].timestamp>>

\* ----------------------------------------------------------- report claims

ReportFields ==
    {"generated_at", "time_window", "summary", "time_analysis", "patterns",
     "insights", "ai_summary"}

\* The Summarizer responses that carry no text: text undefined, "" or blank.
EmptyResponses == {<<>>, << <<>> >>, << <<" ", " ">> >>}

Running == pc \in {"summarizing", "done"}

SummarizerFails ==
    \/ summarizerRejects
    \/ \E response \in EmptyResponses : summarizerResolves(response)

\* C3: when the summary was requested over a non-empty window and the
\* Summarizer throws or answers without text, analyzeFailures still finishes
\* normally, with the complete report whose ai_summary is the non-empty
\* fallback text built from the report's numbers; it never ends in an
\* exception.
C3_SummarizerFailureDegrades ==
    /\ [](pc \in {"idle", "summarizing", "done"})
    /\ [](pc = "summarizing" =>
             IncludeAI(request) /\ report.summary.total_failures > 0)
    /\ [][SummarizerFails =>
             /\ pc' = "done"
             /\ DOMAIN report' = ReportFields
             /\ report'.ai_summary = <<generateFallbackSummary(report)>>
             /\ generateFallbackSummary(report) # <<>>
             /\ [report' EXCEPT !.ai_summary = <<>>] = report]_vars

C3_FallbackReturned ==
    /\ pc = "done"
    /\ IncludeAI(request)
    /\ report.summary.total_failures > 0
    /\ report.ai_summary = <<generateFallbackSummary(report)>>

\* C4: at every point of a report generation, every field of the report
\* other than ai_summary is the one computed from the store contents, the
\* time and the look-back of the call alone, whatever the Summarizer did
\* (a text, no text, an error) and whether it was asked at all.
C4_StatisticsIndependentOfSummarizer ==
    Running =>
        /\ DOMAIN report = ReportFields
        /\ \A includeAISummary \in {UNDEF, "true", "false"} :
              [report EXCEPT !.ai_summary = <<>>] =
                  Analysis(snapshot.store, snapshot.now,
                           [request EXCEPT !.includeAISummary = includeAISummary])

C4_SummarizedAfterStoreChanged ==
    /\ pc = "done"
    /\ report.ai_summary = << <<"S", "1">> >>
    /\ report.summary.total_failures > 0
    /\ failureEvents # snapshot.store

\* No event of the store the report was computed over is inside its window.
EmptyWindow ==
    \A i \in DOMAIN snapshot.store :
        snapshot.store[i].timestamp < report.time_window.from

\* C5: when no stored event falls in the look-back window, the report has
\* total_failures 0, every aggregation list empty and the fixed "no
\* failures" text as ai_summary, and the Summarizer is not called, whether
\* or not the summary was requested.
C5_EmptyWindowReport ==
    (Running /\ EmptyWindow) =>
        /\ pc = "done"
        /\ aiCalls = 0
        /\ report.summary.total_failures = 0
        /\ report.summary.by_type = <<>>
        /\ report.summary.by_agent = <<>>
        /\ report.summary.by_gateway = <<>>
        /\ report.time_analysis.peak_hours = <<>>
        /\ report.time_analysis.hourly_distribution = <<>>
        /\ report.patterns.repeated_failures = <<>>
        /\ report.ai_summary = <<NoFailuresText>>

C5_AllEventsOlder ==
    /\ pc = "done"
    /\ request.includeAISummary = "true"
    /\ snapshot.store # <<>>
    /\ EmptyWindow

\* ---------------------------------------------------- repeated-report claims

\* A report is being generated over the store the last returned report was
\* computed over, with the same look-back.
Repeated ==
    /\ Running
    /\ returned # <<>>
    /\ returned[1].store = snapshot.store
    /\ returned[1].hoursBack = request.hoursBack

SameSections ==
    /\ report.summary = returned[1].summary
    /\ report.time_analysis = returned[1].time_analysis
    /\ report.patterns = returned[1].patterns

\* The two windows hold the same events of the store.
SameWindowContents ==
    \A i \in DOMAIN snapshot.store :
        (snapshot.store[i].timestamp >= returned[1].from)
            <=> (snapshot.store[i].timestamp >= report.time_window.from)

\* C13: two report generations in succession with the same look-back and
\* no write to the store in between have identical summary, time_analysis
\* and patterns sections.
C13_RepeatIdentical == Repeated => SameSections

\* C13, restated: the sections are identical provided no stored event lies
\* between the start of the first window and the start of the second.
C13_RepeatIdenticalSameWindow == (Repeated /\ SameWindowContents) => SameSections

\* C13 witness: a second report over the same non-empty store, generated
\* later than the first, both windows holding the events.
C13_RepeatedLater ==
    /\ Repeated
    /\ SameWindowContents
    /\ returned[1].from < report.time_window.from
    /\ report.summary.total_failures > 0

\* ----------------------------------------------------------------- id claims

\* C19: no two events held in the store at the same time have the same id.
C19_UniqueIds ==
    \A i, j \in DOMAIN failureEvents :
        i # j => failureEvents[i].id # failureEvents[j].id

\* C19, restated: a record call stores and returns its input with every
\* field, the caller's timestamp included, unchanged and with an id made of
\* the time of insertion and the random suffix drawn; the id differs from
\* the id of every held event that was recorded at another time or with
\* another suffix.
C19_IdAssigned ==
    [][RecordStep =>
          \E e \in {recorded'[Len(recorded')]} :
              /\ failureEvents'[Len(failureEvents')] = e
              /\ DOMAIN e = DOMAIN call'.arg \cup {"id"}
              /\ \A f \in DOMAIN call'.arg : e[f] = call'.arg[f]
              /\ e.id[1] = "fail" /\ e.id[2] = now /\ e.id[3] \in RandVals
              /\ \A i \in DOMAIN failureEvents :
                    (failureEvents[i].id[2] # now
                        \/ failureEvents[i].id[3] # e.id[3])
                        => failureEvents[i].id # e.id]_vars

\* C19 witness: three events with three ids, two of them recorded at the
\* same time, one of them with a timestamp that is not its insertion time.
C19_DistinctIds ==
    /\ Len(failureEvents) = 3
    /\ C19_UniqueIds
    /\ failureEvents[1].id[2] = failureEvents[2].id[2]
    /\ failureEvents[3].id[2] # failureEvents[3].timestamp

\* ------------------------------------------------------------ reader claims

\* A step that is a call of clearFailureEvents on a store holding events.
ClearStep ==
    /\ call'.op = "clearFailureEvents"
    /\ failureEvents # <<>>
    /\ failureEvents' = <<>>

\* C14: in every step the events held stay as they are and in their order,
\* except that a record call appends one event, evicting the oldest one when
\* the store is full, and that clear removes them all; reading the store,
\* the quick stats and a report change nothing.
C14_EventsNeverMutated ==
    [][\/ failureEvents' = failureEvents
       \/ ClearStep
       \/ /\ RecordStep
          /\ \E e \in {recorded'[Len(recorded')]} :
                \/ failureEvents' = Append(failureEvents, e)
                \/ /\ Len(failureEvents) = MAX_EVENTS
                   /\ failureEvents' = Append(Tail(failureEvents), e)]_vars

\* C14 witness: a report generated over a full store of distinguishable
\* events after an eviction.
C14_ReportAfterEviction ==
    /\ pc = "done"
    /\ Len(recorded) > MAX_EVENTS
    /\ failureEvents[1] # failureEvents[2]
    /\ report.summary.total_failures = MAX_EVENTS

\* The store after the mutations completed since the last clear.
Committed == LastN(recorded, Min(Len(recorded), MAX_EVENTS))

ReadOps == {r.op : r \in Reads}

\* C15: whatever the interleaving of record, clear and reading calls, each
\* result of a reading function, of the quick stats and of a report is the
\* result over the store as the completed mutations left it: never more than
\* MAX_EVENTS events, each append together with its eviction.
C15_ReadersSeeCommittedStore ==
    /\ Len(failureEvents) <= MAX_EVENTS
    /\ failureEvents = Committed
    /\ call.op \in ReadOps =>
          call.outcome = ReadResult(Committed, call.op, call.arg)
    /\ call.op = "GetRCAStats" =>
          /\ call.outcome.store = StoreStats(Committed)
          /\ call.outcome.stats
                = QuickStatsOf(Committed, now, HoursOfParam(call.arg.hours))
    /\ pc = "done" =>
          /\ snapshot.store = Committed
          /\ report.summary.total_failures = Len(Committed)

\* C15 witness: the store stats read right after an append that evicted.
C15_StatsAfterEviction ==
    /\ call.op = "getStoreStats"
    /\ Len(recorded) = MAX_EVENTS + 1
    /\ call.outcome.total_events = MAX_EVENTS
    /\ recorded[1] # recorded[2]

\* ----------------------------------------------------------- handler claims

\* C16: only a record call and clear change the store: every step of the
\* reading functions, of the stats request, of a report generation with its
\* text rendering and of the hourly pass leaves the store as it is.
C16_ReadersLeaveStore ==
    [][~(RecordStep \/ ClearStep) => failureEvents' = failureEvents]_vars

\* C16 witness: the stats request answered while a report request waits
\* for the Summarizer, over a store holding events.
C16_StatsDuringReport ==
    /\ pc = "summarizing"
    /\ request.handler = "GetRCAReport"
    /\ call.op = "GetRCAStats"
    /\ Len(failureEvents) = MaxHandlerEvents
    /\ snapshot.store = failureEvents

\* C17: every report generation that waits for the Summarizer eventually
\* finishes, also when the Summarizer never answers.
C17_ReportEventuallyReturns == (pc = "summarizing") ~> (pc = "done")

\* An hours parameter that is absent or a decimal number.
WellFormedHours(hoursParam) == hoursParam \in {UNDEF, "0", "1"}

\* C18: a report or stats request with a malformed hours parameter is
\* answered with a client error (4xx) and every request with well-formed
\* parameters with 200.
C18_MalformedHoursRejected ==
    call.op \in {"GetRCAReport", "GetRCAStats"} =>
        IF WellFormedHours(call.arg.hours)
        THEN call.outcome.status = 200
        ELSE call.outcome.status \in 400..499

\* -------------------------------------------------------- quick stats claims

\* The first entry of a list as an optional (key, count, percentage).
FirstOf(groups) ==
    IF Len(groups) > 0
    THEN <<[key |-> groups[1].key, count |-> groups[1].count,
            percentage |-> groups[1].percentage]>>
    ELSE <<>>

TypeEntry(top) ==
    IF top = <<>> THEN <<>>
    ELSE <<[key |-> top[1].type, count |-> top[1].count,
            percentage |-> top[1].percentage]>>

NameEntry(top) ==
    IF top = <<>> THEN <<>>
    ELSE <<[key |-> top[1].name, count |-> top[1].count,
            percentage |-> top[1].percentage]>>

\* The quick stats `stats` agree with the report `r`.
QuickMatches(stats, r) ==
    /\ stats.total_failures = r.summary.total_failures
    /\ TypeEntry(stats.top_failure_type) = FirstOf(r.summary.by_type)
    /\ NameEntry(stats.top_gateway) = FirstOf(r.summary.by_gateway)
    /\ NameEntry(stats.top_agent) = FirstOf(r.summary.by_agent)

\* A step that answers a stats request.
StatsStep == call'.op = "GetRCAStats" /\ call' # call

\* C21: the quick stats over the store, the time and the look-back window of
\* a report equal the report's total_failures and the first entries of its
\* by_type, by_gateway and by_agent, each top entry absent exactly when the
\* list is empty; a stats request answered while a report waits for the
\* Summarizer over the same store, time and window agrees with that report,
\* and answering it makes no Summarizer call.
C21_QuickStatsAgreeWithReport ==
    [][/\ pc \in {"summarizing", "done"} =>
             QuickMatches(QuickStatsOf(snapshot.store, snapshot.now,
                                       Hours(report.time_window.hours)), report)
       /\ StatsStep => aiCalls' = aiCalls /\ pc' = pc /\ report' = report
       /\ (/\ StatsStep
           /\ pc = "summarizing"
           /\ snapshot = [store |-> failureEvents, now |-> now]
           /\ call'.outcome.time_window_hours = Hours(report.time_window.hours))
             => QuickMatches(call'.outcome.stats, report)]_vars

\* C21 witness: the stats request answered during a report generation over
\* the same store, time and window, with an event outside the window and no
\* gateway among the events inside.
C21_StatsBesideReport ==
    /\ pc = "summarizing"
    /\ call.op = "GetRCAStats"
    /\ snapshot = [store |-> failureEvents, now |-> now]
    /\ call.outcome.time_window_hours = Hours(report.time_window.hours)
    /\ call.outcome.stats.total_failures = report.summary.total_failures
    /\ report.summary.total_failures < Len(failureEvents)
    /\ call.outcome.stats.top_gateway = <<>>
    /\ call.outcome.stats.top_agent # <<>>

\* ------------------------------------------------------------ window claims

\* The events of `store` stamped at or after `from`.
InWindow(store, from) ==
    SelectSeq(store, LAMBDA e : e.timestamp # NoTime /\ e.timestamp >= from)

\* C22: a report's total_failures is the number of events, in the store as
\* it was when the generation began, with timestamp >= time_window.from, and
\* it equals the sums of the by_type, by_agent and hourly_distribution
\* counts, whatever is recorded while the generation waits.
C22_OneSnapshot ==
    pc \in {"summarizing", "done"} =>
        /\ report.summary.total_failures
              = Len(InWindow(snapshot.store, report.time_window.from))
        /\ SumSeq(Counts(report.summary.by_type)) = report.summary.total_failures
        /\ SumSeq(Counts(report.summary.by_agent)) = report.summary.total_failures
        /\ SumSeq(Counts(report.time_analysis.hourly_distribution))
              = report.summary.total_failures

\* C22 witness: a report finished after an event was recorded during its
\* wait, with an event outside its window.
C22_RecordedWhileWaiting ==
    /\ pc = "done"
    /\ Len(failureEvents) > Len(snapshot.store)
    /\ report.summary.total_failures > 0
    /\ report.summary.total_failures < Len(snapshot.store)

\* The look-back a request supplies, 24 when it supplies none.
Supplied(options) ==
    IF options.hoursBack.kind = "number"
    THEN options.hoursBack.value ELSE DefaultHoursBack

\* C23: a report has time_window.hours = h and time_window.from =
\* time_window.to - h for the look-back h supplied, h = 0 included (24 when
\* none is supplied), and counts only the events stamped at or after that
\* from.
C23_WindowAsSupplied ==
    pc = "done" =>
        /\ report.time_window.hours = Supplied(request)
        /\ report.time_window.from = report.time_window.to - Supplied(request)
        /\ report.summary.total_failures
              = Len(InWindow(snapshot.store,
                             report.time_window.to - Supplied(request)))

\* -------------------------------------------------------------- order claims

\* The position in `events` of the first event whose field f has the key.
FirstAt(events, f, key) ==
    MinOf({i \in DOMAIN events : OrElse(events[i][f], "unknown") = key})

\* C24: the groups of aggregateBy are in descending order of count, and
\* groups of equal count are in the order in which their keys first occur
\* among the events, whatever the keys look like.
C24_TiesInInsertionOrder ==
    \A f \in Fields :
        LET events == getFailureEvents(NoOptions)
            groups == aggregateBy(f, NoOptions)
        IN  \A i, j \in DOMAIN groups :
                i < j =>
                    /\ groups[i].count >= groups[j].count
                    /\ groups[i].count = groups[j].count =>
                          FirstAt(events, f, groups[i].key)
                              < FirstAt(events, f, groups[j].key)

\* The report generated at hour 21 over the last 24 hours.
PeakReport == Analysis(failureEvents, 21, NoRequest)

\* C25: for every topN >= 0, getPeakFailureHours(topN) is the first
\* min(topN, number of non-empty hours) entries of getFailuresByHour, so no
\* bucket left out has a larger count than a bucket returned; the peak_hours
\* of a report are the first at most 3 entries of its hourly_distribution.
C25_PeakIsPrefix ==
    /\ \A topN \in TopNs :
          LET all == getFailuresByHour(NoOptions)
              peak == getPeakFailureHours(topN, NoOptions)
          IN  /\ Len(peak) = Min(topN, Len(all))
              /\ \A i \in DOMAIN peak : peak[i] = all[i]
              /\ \A i \in DOMAIN peak, j \in DOMAIN all :
                    j > Len(peak) => peak[i].count >= all[j].count
    /\ \A r \in {PeakReport} :
          /\ Len(r.time_analysis.peak_hours)
                = Min(PeakHoursTopN, Len(r.time_analysis.hourly_distribution))
          /\ \A i \in DOMAIN r.time_analysis.peak_hours :
                r.time_analysis.peak_hours[i]
                    = r.time_analysis.hourly_distribution[i]

\* C25 witness: four non-empty hours, the fullest one not the earliest, so
\* that the top 3 leaves a bucket out and the top 1 is an hour of two events.
C25_FourHours ==
    /\ Len(getFailuresByHour(NoOptions)) = 4
    /\ Len(getPeakFailureHours(3, NoOptions)) = 3
    /\ getPeakFailureHours(1, NoOptions)[1].count = 2
    /\ getPeakFailureHours(1, NoOptions)[1].hour = 20
    /\ Len(PeakReport.time_analysis.peak_hours) = 3

\* The triple (agentName, gateway or "none", errorMessage or "unknown").
Triple(e) ==
    <<e.agent_name,
      IF e.gateway = UNDEF THEN "none" ELSE e.gateway,
      IF e.error_message = UNDEF THEN "unknown" ELSE e.error_message>>

\* C26: getRepeatedPatterns counts two events in the same group exactly
\* when they agree on the triple (agentName, gateway or "none",
\* errorMessage or "unknown"); the count of a group is the number of events
\* with its triple, and its agent and gateway are those of every event
\* counted in it.
C26_GroupsAreTriples ==
    LET events == getFailureEvents(NoOptions)
        patterns == getRepeatedPatterns([NoOptions EXCEPT !.minOccurrences = 1])
        members(p) == {i \in DOMAIN events : PatternKey(events[i]) = p.pattern}
    IN  /\ \A i, j \in DOMAIN events :
              (PatternKey(events[i]) = PatternKey(events[j]))
                  <=> (Triple(events[i]) = Triple(events[j]))
        /\ \A k \in DOMAIN patterns :
              /\ \A i \in members(patterns[k]) :
                    /\ patterns[k].agent = events[i].agent_name
                    /\ patterns[k].gateway = events[i].gateway
                    /\ patterns[k].count
                          = Cardinality({j \in DOMAIN events :
                                           Triple(events[j]) = Triple(events[i])})

\* ---------------------------------------------------------- summarizer claims

\* C27: a report generation calls the Summarizer at most once, and only
\* when the summary is requested and total_failures > 0, with all statistics
\* and insights of the report already computed; a report over failures
\* whose summary was not requested carries no ai_summary.
C27_SummarizerCalledOnceWhenAsked ==
    /\ aiCalls \in {0, 1}
    /\ pc = "idle" => aiCalls = 0
    /\ pc = "summarizing" =>
          /\ aiCalls = 1
          /\ report = Analysis(snapshot.store, snapshot.now, request)
    /\ Running =>
          (aiCalls = 1 <=> IncludeAI(request) /\ report.summary.total_failures > 0)
    /\ (pc = "done" /\ ~IncludeAI(request) /\ report.summary.total_failures > 0)
          => report.ai_summary = <<>>

\* C27 witness: a report over failures returned without a summary because
\* none was requested.
C27_NotRequested ==
    /\ pc = "done"
    /\ request.includeAISummary = "false"
    /\ report.summary.total_failures = 2
    /\ report.insights.most_failing_gateway # <<>>
    /\ aiCalls = 0
    /\ report.ai_summary = <<>>

\* ---------------------------------------------------------- hourly pass claims

\* An optional top entry counts no more than `total`.
WithinTotal(top, total) == top # <<>> => top[1].count <= total

\* C28: in every rca.report.generated event of the hourly pass each top
\* entry present has count <= total_failures, and top_failure_type and
\* top_agent are present exactly when total_failures > 0, whatever is
\* recorded while the pass waits.
C28_EmitDescribesOneEventSet ==
    call.op = "RCAAnalysisCron" =>
        /\ WithinTotal(call.outcome.top_failure_type, call.outcome.total_failures)
        /\ WithinTotal(call.outcome.top_gateway, call.outcome.total_failures)
        /\ WithinTotal(call.outcome.top_agent, call.outcome.total_failures)
        /\ call.outcome.top_failure_type # <<>> <=> call.outcome.total_failures > 0
        /\ call.outcome.top_agent # <<>> <=> call.outcome.total_failures > 0

\* ------------------------------------------------------------ capacity claims

\* C29: a report's total_failures exceeds neither MAX_EVENTS nor the number
\* of events recorded since the last clear; it is the number of those
\* recorded events stamped at or after the window start when at most
\* MAX_EVENTS were recorded, and otherwise the number of such events among
\* the MAX_EVENTS recorded last.
C29_TotalBoundedByCapacity ==
    pc = "done" =>
        /\ report.summary.total_failures <= MAX_EVENTS
        /\ report.summary.total_failures <= Len(recorded)
        /\ Len(recorded) <= MAX_EVENTS =>
              report.summary.total_failures
                  = Len(InWindow(recorded, report.time_window.from))
        /\ report.summary.total_failures
              = Len(InWindow(LastN(recorded, Min(Len(recorded), MAX_EVENTS)),
                             report.time_window.from))

\* C29 witness: a report generated after an event inside its window was
\* evicted and after an event outside its window was recorded.
C29_WindowEventEvicted ==
    /\ pc = "done"
    /\ Len(recorded) > MAX_EVENTS
    /\ report.summary.total_failures
          < Len(InWindow(recorded, report.time_window.from))
    /\ Len(InWindow(recorded, report.time_window.from)) < Len(recorded)
    /\ report.summary.total_failures = MAX_EVENTS

\* ---------------------------------------------------------- percentage claims

\* C30 as stated: in every report with at least one failure,
\* insights.peak_failure_window.percentage is an integer between 0 and 100.
C30_PeakPercentageAtMost100 ==
    \A r \in {PeakReport} :
        r.summary.total_failures > 0 =>
            /\ r.insights.peak_failure_window # <<>>
            /\ r.insights.peak_failure_window[1].percentage \in 0..100

\* C30: in every report with at least one failure,
\* insights.peak_failure_window.percentage is the sum of the rounded
\* percentages of the at most 3 peak hours, an integer between 1 and 101.
C30_PeakPercentageIsSum ==
    \A r \in {PeakReport} :
        r.summary.total_failures > 0 =>
            /\ r.insights.peak_failure_window # <<>>
            /\ Len(r.time_analysis.peak_hours) \in 1..PeakHoursTopN
            /\ r.insights.peak_failure_window[1].percentage
                  = SumSeq(Percentages(r.time_analysis.peak_hours))
            /\ \A i \in DOMAIN r.time_analysis.peak_hours :
                  r.time_analysis.peak_hours[i].percentage
                      = RoundPct(r.time_analysis.peak_hours[i].count,
                                 r.summary.total_failures)
            /\ r.insights.peak_failure_window[1].percentage \in 1..101

\* C30 witness: six failures, four in one hour and one in each of two
\* others: 67 + 17 + 17.
C30_Sum101 ==
    \E r \in {PeakReport} :
        /\ r.summary.total_failures = 6
        /\ Len(r.time_analysis.hourly_distribution) = 3
        /\ r.insights.peak_failure_window[1].percentage = 101

====
